---- MODULE Spec2Model ----
(***************************************************************************)
(* OrganiJob backend: the auth flow and the full-replace sync endpoint, in *)
(* its two storage variants.                                               *)
(*   variant = "file" : the flat-file server (data/db.json, readDb/writeDb)*)
(*   variant = "pg"   : the relational server (src/server.js, node-pg)     *)
(* Node runs one handler at a time; a handler gives way at every await.    *)
(* Every action below is the code that runs between two awaits, together   *)
(* with the one storage operation it waits for.                            *)
(***************************************************************************)
EXTENDS Integers, Sequences, FiniteSets, TLC

VARIABLES
    variant,     \* which server is running
    users,       \* users table / db.users
    sessions,    \* sessions table / db.sessions
    contacts,    \* contacts table (committed rows) / db.contacts, in storage order
    fresh,       \* how many random values (randomUUID, createToken) were drawn
    started,     \* how many requests the server has taken up
    req,         \* the handlers suspended at an await, per request slot
    resp,        \* the response sent last
    issuedLog,   \* history: tokens returned by register/login, in order of return
    revoked,     \* history: tokens whose logout returned 200
    registered,  \* history: (email, password, id) of every 201 of register
    lastPush,    \* history: per user id, the sanitized list of the push that landed last
    twin,        \* both servers side by side, given the same requests one at a time
    app,         \* the client application on each device
    static       \* the last request the static file fallback took

vars == <<variant, users, sessions, contacts, fresh, started, req, resp,
          issuedLog, revoked, registered, lastPush, twin, app, static>>

-----------------------------------------------------------------------------
(* Bounds *)

\* requests the server takes up in one run
MaxRequests == 4

-----------------------------------------------------------------------------
(* Strings are sequences of characters *)

UpperChars == <<"A", "B">>
LowerChars == <<"a", "b">>

toLowerChar(c) ==
    IF \E i \in DOMAIN UpperChars : UpperChars[i] = c
    THEN LowerChars[CHOOSE i \in DOMAIN UpperChars : UpperChars[i] = c]
    ELSE c

toLowerCase(s) == [i \in DOMAIN s |-> toLowerChar(s[i])]

RECURSIVE trimStart(_)
trimStart(s) ==
    IF s # <<>> /\ Head(s) = " " THEN trimStart(Tail(s)) ELSE s

RECURSIVE trimEnd(_)
trimEnd(s) ==
    IF s # <<>> /\ s[Len(s)] = " " THEN trimEnd(SubSeq(s, 1, Len(s) - 1)) ELSE s

trim(s) == trimEnd(trimStart(s))

includes(s, c) == \E i \in DOMAIN s : s[i] = c

\* a normalizeEmail that trims and keeps the case
normalizeEmailKeepingCase(email) == trim(email)

\* String(email || '').trim().toLowerCase(); an absent field is <<>>
normalizeEmail(email) == toLowerCase(trim(email))

\* String(password || '')
normalizePassword(password) == password

isValidEmail(email) == email # <<>> /\ includes(email, "@") /\ includes(email, ".")

MinPasswordLength == 8

\* an isValidPassword that takes every password but the empty one
isValidPasswordNonEmpty(password) == Len(password) >= 1

isValidPassword(password) == Len(password) >= MinPasswordLength

\* pbkdf2Sync(password, salt, 100000, 64, 'sha512'): a collision-free digest
pbkdf2Sync(password, salt) == <<password, salt>>

hashPassword(password, salt) == [salt |-> salt, hash |-> pbkdf2Sync(password, salt)]

\* a verifyPassword that takes every password
verifyPasswordAcceptingAll(password, salt, expectedHash) == TRUE

\* timingSafeEqual of the digest of the typed password and the stored one
verifyPassword(password, salt, expectedHash) == pbkdf2Sync(password, salt) = expectedHash

-----------------------------------------------------------------------------
(* Dates: two spellings of an instant d, the local <<d>> (what a            *)
(* datetime-local input holds) and the ISO <<d, "Z">> (what toISOString     *)
(* prints); every other string does not parse.                             *)

Digits == <<"1", "2">>

IsDigit(c) == \E i \in DOMAIN Digits : Digits[i] = c

\* !Number.isNaN(new Date(raw).getTime())
IsDate(raw) ==
    \/ Len(raw) = 1 /\ IsDigit(raw[1])
    \/ Len(raw) = 2 /\ IsDigit(raw[1]) /\ raw[2] = "Z"

\* new Date(raw).getTime(), for a raw that parses
getTime(raw) == CHOOSE i \in DOMAIN Digits : Digits[i] = raw[1]

toISOString(t) == <<Digits[t], "Z">>

\* normalizeDate of the relational server: <<>> stands for null
normalizeDate(dateAppel) ==
    LET raw == trim(dateAppel)
    IN  IF raw = <<>> THEN <<>>
        ELSE IF ~IsDate(raw) THEN <<>>
        ELSE toISOString(getTime(raw))

-----------------------------------------------------------------------------
(* Request inputs *)

Reqs == {1, 2}

EmailA   == <<"a", "@", ".">>
EmailAUp == <<" ", "A", "@", ".", " ">>
EmailB   == <<"b", "@", ".">>
EmailBad == <<"a", "b">>
RawEmails == {EmailA, EmailAUp, EmailB, EmailBad}

Pw1     == <<"p", "a", "s", "s", "w", "o", "r", "d">>
Pw2     == <<"P", "a", "s", "s", "w", "o", "r", "d">>
PwShort == <<"p", "a", "s", "s">>
\* what clients register with, and what they try to log in with
RegisterPasswords == {Pw1, PwShort}
LoginPasswords == {Pw1, Pw2}

Salts == {"s1"}

\* a value a falsy id, token or header field stands for
NoId == 0
NoToken == 0
\* tokens no session ever had
BogusTokens == {999}

\* Authorization headers: absent, or <<scheme prefix, rest>>
NoHeader == <<>>
Bearer(t) == <<"Bearer ", t>>
Basic(t) == <<"Basic ", t>>

\* a token taken from the header whatever its scheme
bearerTokenAnyScheme(auth) == IF auth # <<>> THEN auth[2] ELSE NoToken

\* auth.startsWith('Bearer ') ? auth.slice(7) : ''
bearerToken(auth) ==
    IF auth # <<>> /\ auth[1] = "Bearer " THEN auth[2] ELSE NoToken

\* the tokens a client can hold: those some response carried
KnownTokens == {issuedLog[i].token : i \in DOMAIN issuedLog}

Headers ==
    {NoHeader} \cup {Bearer(t) : t \in KnownTokens \cup BogusTokens}
    \cup {Basic(t) : t \in KnownTokens}

Contact(id, userId, nom, organisation, dateAppel, notes) ==
    [id |-> id, userId |-> userId, nom |-> nom, organisation |-> organisation,
     dateAppel |-> dateAppel, expertise |-> <<>>, inclusivite |-> <<>>,
     notes |-> notes]

K1    == Contact(101, 0, <<" ", "A", " ">>, <<"o">>, <<"1">>, <<"n", " ">>)
K2    == Contact(102, 0, <<"B">>, <<"o">>, <<"2">>, <<>>)
K1b   == Contact(101, 0, <<"C">>, <<"o">>, <<"2", "Z">>, <<>>)
KNoId == Contact(NoId, 7, <<"D">>, <<"o">>, <<"1", "Z">>, <<>>)
KNoName == Contact(103, 0, <<" ">>, <<"o">>, <<"1">>, <<>>)
KBadDate == Contact(104, 0, <<"E">>, <<"o">>, <<"x">>, <<>>)

\* the body of a PUT /api/sync: body.contacts is an array, or it is not
ArrayBody(cs) == [isArray |-> TRUE, contacts |-> cs]
NotArray == [isArray |-> FALSE, contacts |-> <<>>]
Bodies ==
    {NotArray} \cup
    { ArrayBody(cs) : cs \in { <<K1, K2>>, <<K1, K1b>>, <<KNoId>>,
                               <<KNoName, K2>>, <<KBadDate>>,
                               <<KNoName, KBadDate>> } }

-----------------------------------------------------------------------------
(* Sanitizing a push *)

\* a map that draws a new id for every record
RECURSIVE assignIdsAnew(_, _)
assignIdsAnew(cs, base) ==
    IF cs = <<>> THEN <<>>
    ELSE <<base + 1>> \o assignIdsAnew(Tail(cs), base + 1)

\* c.id || crypto.randomUUID(): the ids the map draws, in order
RECURSIVE assignIds(_, _)
assignIds(cs, base) ==
    IF cs = <<>> THEN <<>>
    ELSE IF Head(cs).id # NoId
         THEN <<Head(cs).id>> \o assignIds(Tail(cs), base)
         ELSE <<base + 1>> \o assignIds(Tail(cs), base + 1)

missingIds(cs) == Cardinality({i \in DOMAIN cs : cs[i].id = NoId})

\* a map that keeps the userId a submitted record carries
sanitizeFileKeepingOwner(cs, userId, base) ==
    LET ids == assignIds(cs, base)
        mapped == [i \in DOMAIN cs |->
                     [id |-> ids[i],
                      userId |-> IF cs[i].userId # 0 THEN cs[i].userId ELSE userId,
                      nom |-> trim(cs[i].nom),
                      organisation |-> trim(cs[i].organisation),
                      dateAppel |-> trim(cs[i].dateAppel),
                      expertise |-> trim(cs[i].expertise),
                      inclusivite |-> trim(cs[i].inclusivite),
                      notes |-> trim(cs[i].notes)]]
        keep(c) == c.nom # <<>> /\ c.organisation # <<>> /\ c.dateAppel # <<>>
    IN  SelectSeq(mapped, keep)

\* the flat-file server's map and filter: the date is kept as typed, trimmed
sanitizeFile(cs, userId, base) ==
    LET ids == assignIds(cs, base)
        mapped == [i \in DOMAIN cs |->
                     [id |-> ids[i], userId |-> userId,
                      nom |-> trim(cs[i].nom),
                      organisation |-> trim(cs[i].organisation),
                      dateAppel |-> trim(cs[i].dateAppel),
                      expertise |-> trim(cs[i].expertise),
                      inclusivite |-> trim(cs[i].inclusivite),
                      notes |-> trim(cs[i].notes)]]
        keep(c) == c.nom # <<>> /\ c.organisation # <<>> /\ c.dateAppel # <<>>
    IN  SelectSeq(mapped, keep)

\* a filter that asks for a name and an organisation and takes a null date
sanitizePgKeepingUndated(cs, userId, base) ==
    LET ids == assignIds(cs, base)
        mapped == [i \in DOMAIN cs |->
                     [id |-> ids[i], userId |-> userId,
                      nom |-> trim(cs[i].nom),
                      organisation |-> trim(cs[i].organisation),
                      dateAppel |-> normalizeDate(cs[i].dateAppel),
                      expertise |-> trim(cs[i].expertise),
                      inclusivite |-> trim(cs[i].inclusivite),
                      notes |-> trim(cs[i].notes)]]
        keep(c) == c.nom # <<>> /\ c.organisation # <<>>
    IN  SelectSeq(mapped, keep)

\* the relational server's map and filter: the date goes through normalizeDate
sanitizePg(cs, userId, base) ==
    LET ids == assignIds(cs, base)
        mapped == [i \in DOMAIN cs |->
                     [id |-> ids[i], userId |-> userId,
                      nom |-> trim(cs[i].nom),
                      organisation |-> trim(cs[i].organisation),
                      dateAppel |-> normalizeDate(cs[i].dateAppel),
                      expertise |-> trim(cs[i].expertise),
                      inclusivite |-> trim(cs[i].inclusivite),
                      notes |-> trim(cs[i].notes)]]
        keep(c) == c.nom # <<>> /\ c.organisation # <<>> /\ c.dateAppel # <<>>
    IN  SelectSeq(mapped, keep)

-----------------------------------------------------------------------------
(* Ordering a pull *)

Range(s) == {s[i] : i \in DOMAIN s}

Permutations1(n) == {f \in [1..n -> 1..n] : \A i, j \in 1..n : f[i] = f[j] => i = j}

\* the orders a list can be put in
Orders(l) == {[i \in DOMAIN l |-> l[f[i]]] : f \in Permutations1(Len(l))}

DateDescending(l) ==
    \A i, j \in DOMAIN l : i < j => getTime(l[i].dateAppel) >= getTime(l[j].dateAppel)

\* .sort((a, b) => new Date(b.dateAppel) - new Date(a.dateAppel)): a stable sort
\* when the comparator is consistent; a NaN difference counts as 0, and with an
\* inconsistent comparator the order is implementation-defined
sortByDateFile(l) ==
    LET dated == {i \in DOMAIN l : IsDate(l[i].dateAppel)}
        stable(f) ==
            \A i, j \in 1..Len(l) : i < j =>
                \/ getTime(l[f[i]].dateAppel) > getTime(l[f[j]].dateAppel)
                \/ /\ getTime(l[f[i]].dateAppel) = getTime(l[f[j]].dateAppel)
                   /\ f[i] < f[j]
    IN  IF dated = DOMAIN l
        THEN {[i \in DOMAIN l |-> l[f[i]]] : f \in {g \in Permutations1(Len(l)) : stable(g)}}
        ELSE IF \A i, j \in dated : getTime(l[i].dateAppel) = getTime(l[j].dateAppel)
        THEN {l}
        ELSE Orders(l)

\* ORDER BY date_appel DESC: any order of the rows with the dates descending
orderByDatePg(l) == {o \in Orders(l) : DateDescending(o)}

-----------------------------------------------------------------------------
(* The store, the suspended handlers, the responses *)

\* readDb(): the three arrays of data/db.json
readDb == [users |-> users, sessions |-> sessions, contacts |-> contacts]

\* ensureDb(): const initial = { users: [], sessions: [], contacts: [] }
EmptyDb == [users |-> {}, sessions |-> {}, contacts |-> <<>>]

NoRival == [landed |-> FALSE, san |-> <<>>]

Idle ==
    [op |-> "idle", pc |-> "idle", uid |-> 0, token |-> 0, email |-> <<>>,
     password |-> <<>>, hash |-> <<>>, salt |-> "", db |-> EmptyDb, san |-> <<>>, pendDel |-> {},
     pendIns |-> <<>>, delSnap |-> {}, rival |-> NoRival]

\* sendJson(res, code, payload): the request answered, the status, and the payload's
\* error, token, user.id, contacts and count (0, "" and <<>> where it has none)
Response(op, status, token, uid, cs, count) ==
    [op |-> op, status |-> status, error |-> "", token |-> token, uid |-> uid,
     contacts |-> cs, count |-> count]

NoResponse == Response("none", 0, 0, 0, <<>>, 0)

\* sendJson(res, code, { error }); the flat-file server spells some of the messages
\* with accents, here both servers' messages are spelled without
Reply(op, status, error) ==
    [op |-> op, status |-> status, error |-> error, token |-> 0, uid |-> 0,
     contacts |-> <<>>, count |-> 0]

\* getUserFromAuth: the users the bearer token's session belongs to ({}: null)
getUserFromAuth(auth, db) ==
    LET token == bearerToken(auth)
    IN  IF token = NoToken THEN {}
        ELSE {u \in db.users :
                \E s \in db.sessions : s.token = token /\ s.userId = u.id}

\* issueSession of the flat-file server, on the db object in memory
issueSession(db, userId, token) ==
    [db EXCEPT !.sessions =
        {s \in db.sessions : s.userId # userId} \cup {[token |-> token, userId |-> userId]}]

\* the static file fallback has taken no request
NoStatic == [url |-> <<>>, filepath |-> <<>>, status |-> 0, read |-> FALSE]

Devices == {"A", "B"}

\* a device after a first page load: localStorage empty, let contactsCache = []
NoDevice == [token |-> NoToken, email |-> <<>>, cache |-> <<>>, pc |-> "idle"]

\* no device has opened the application; added: the contacts added on device A
\* while its token was the account's session; sent: the number of PUT /api/sync
\* requests sent so far, the device and the contacts array of the last one
NoApp == [dev |-> [d \in Devices |-> NoDevice], added |-> {},
          sent |-> [n |-> 0, dev |-> "", contacts |-> <<>>]]

\* the two servers are not run side by side
NoTwin == [file |-> EmptyDb, pg |-> EmptyDb, fresh |-> 0, tokens |-> {},
           fileResp |-> NoResponse, pgResp |-> NoResponse]

Init ==
    /\ variant \in {"file", "pg"}
    /\ users = {}
    /\ sessions = {}
    /\ contacts = <<>>
    /\ fresh = 0
    /\ started = 0
    /\ req = [r \in Reqs |-> Idle]
    /\ resp = NoResponse
    /\ issuedLog = <<>>
    /\ revoked = {}
    /\ registered = {}
    /\ lastPush = {}
    /\ twin = NoTwin
    /\ app = NoApp
    /\ static = NoStatic

\* writeDb(db)
writeDb(db) ==
    /\ users' = db.users
    /\ sessions' = db.sessions
    /\ contacts' = db.contacts

StoreUnchanged == UNCHANGED <<users, sessions, contacts>>

\* a new request is kept in the first free slot (which slot holds it plays no part)
FreeSlot(r) == req[r].op = "idle" /\ \A q \in Reqs : q < r => req[q].op # "idle"

\* the server takes up one more request
Accept ==
    /\ started < MaxRequests
    /\ started' = started + 1
HistoryUnchanged == UNCHANGED <<issuedLog, revoked, registered, lastPush>>

\* history: a push of user uid landed with the list san
Landed(uid, san) ==
    {p \in lastPush : p.uid # uid} \cup {[uid |-> uid, san |-> san]}

\* history: the other suspended pushes of the same user see this one land
NoteRival(r, uid, san) ==
    [q \in Reqs |->
        IF q = r THEN Idle
        ELSE IF req[q].op = "put" /\ req[q].uid = uid
             THEN [req[q] EXCEPT !.rival = [landed |-> TRUE, san |-> san]]
             ELSE req[q]]

-----------------------------------------------------------------------------
(* The flat-file server. Every handler but PUT /api/sync touches the file  *)
(* only after its last await, so it is one step.                           *)

FileRegister(rawEmail, rawPassword, salt) ==
    LET email == normalizeEmail(rawEmail)
        password == normalizePassword(rawPassword)
        db == readDb
        existing == {u \in db.users : u.email = email}
        hs == hashPassword(password, salt)
    IN  /\ variant = "file"
        /\ Accept
        /\ UNCHANGED <<variant, twin, app, static, req>>
        /\ IF ~isValidEmail(email)
           THEN /\ resp' = Reply("register", 400, "Adresse email invalide.")
                /\ StoreUnchanged /\ HistoryUnchanged /\ UNCHANGED fresh
           ELSE IF ~isValidPassword(password)
           THEN /\ resp' = Reply("register", 400, "Mot de passe trop court (8 caracteres minimum).")
                /\ StoreUnchanged /\ HistoryUnchanged /\ UNCHANGED fresh
           ELSE IF \E u \in existing : u.passwordHash # <<>> /\ u.passwordSalt # ""
           THEN /\ resp' = Reply("register", 409, "Ce compte existe deja. Connecte-toi.")
                /\ StoreUnchanged /\ HistoryUnchanged /\ UNCHANGED fresh
           ELSE IF existing = {}
           THEN LET userId == fresh + 1
                    token == fresh + 2
                    user == [id |-> userId, email |-> email,
                             passwordHash |-> hs.hash, passwordSalt |-> hs.salt]
                    db1 == [db EXCEPT !.users = db.users \cup {user}]
                IN  /\ fresh' = fresh + 2
                    /\ writeDb(issueSession(db1, userId, token))
                    /\ resp' = Response("register", 201, token, userId, <<>>, 0)
                    /\ issuedLog' = Append(issuedLog, [token |-> token, uid |-> userId])
                    /\ registered' = registered \cup
                           {[email |-> email, password |-> password, id |-> userId]}
                    /\ UNCHANGED <<revoked, lastPush>>
           ELSE LET old == CHOOSE u \in existing : TRUE
                    token == fresh + 1
                    user == [old EXCEPT !.passwordHash = hs.hash, !.passwordSalt = hs.salt]
                    db1 == [db EXCEPT !.users = (db.users \ {old}) \cup {user}]
                IN  /\ fresh' = fresh + 1
                    /\ writeDb(issueSession(db1, old.id, token))
                    /\ resp' = Response("register", 201, token, old.id, <<>>, 0)
                    /\ issuedLog' = Append(issuedLog, [token |-> token, uid |-> old.id])
                    /\ registered' = registered \cup
                           {[email |-> email, password |-> password, id |-> old.id]}
                    /\ UNCHANGED <<revoked, lastPush>>

FileLogin(rawEmail, rawPassword) ==
    LET email == normalizeEmail(rawEmail)
        password == normalizePassword(rawPassword)
        db == readDb
        found == {u \in db.users : u.email = email}
    IN  /\ variant = "file"
        /\ Accept
        /\ UNCHANGED <<variant, twin, app, static, req>>
        /\ IF ~isValidEmail(email)
           THEN /\ resp' = Reply("login", 400, "Adresse email invalide.")
                /\ StoreUnchanged /\ HistoryUnchanged /\ UNCHANGED fresh
           ELSE IF \A u \in found : u.passwordHash = <<>> \/ u.passwordSalt = ""
           THEN /\ resp' = Reply("login", 404, "Compte introuvable. Cree un compte.")
                /\ StoreUnchanged /\ HistoryUnchanged /\ UNCHANGED fresh
           ELSE LET user == CHOOSE u \in found : TRUE
                    token == fresh + 1
                IN  IF ~verifyPassword(password, user.passwordSalt, user.passwordHash)
                    THEN /\ resp' = Reply("login", 401, "Email ou mot de passe incorrect.")
                         /\ StoreUnchanged /\ HistoryUnchanged /\ UNCHANGED fresh
                    ELSE /\ fresh' = fresh + 1
                         /\ writeDb(issueSession(db, user.id, token))
                         /\ resp' = Response("login", 200, token, user.id, <<>>, 0)
                         /\ issuedLog' = Append(issuedLog, [token |-> token, uid |-> user.id])
                         /\ UNCHANGED <<revoked, registered, lastPush>>

\* a logout that answers 200 and writes the file back as it read it
FileLogoutKeepingSession(auth) ==
    /\ variant = "file"
    /\ Accept
    /\ writeDb(readDb)
    /\ resp' = Response("logout", 200, 0, 0, <<>>, 0)
    /\ revoked' = IF bearerToken(auth) = NoToken THEN revoked
                  ELSE revoked \cup {bearerToken(auth)}
    /\ UNCHANGED <<variant, twin, app, static, fresh, req, issuedLog, registered, lastPush>>

FileLogout(auth) ==
    LET db == readDb
        token == bearerToken(auth)
    IN  /\ variant = "file"
        /\ Accept
        /\ writeDb([db EXCEPT !.sessions = {s \in db.sessions : s.token # token}])
        /\ resp' = Response("logout", 200, 0, 0, <<>>, 0)
        /\ revoked' = IF token = NoToken THEN revoked ELSE revoked \cup {token}
        /\ UNCHANGED <<variant, twin, app, static, fresh, req, issuedLog, registered, lastPush>>

\* a pull that answers every stored contact
FileGetEveryone(auth) ==
    LET db == readDb
        authData == getUserFromAuth(auth, db)
    IN  /\ variant = "file"
        /\ Accept
        /\ StoreUnchanged /\ HistoryUnchanged /\ UNCHANGED <<variant, twin, app, static, fresh, req>>
        /\ IF authData = {}
           THEN resp' = Reply("get", 401, "Non autorise.")
           ELSE \E userContacts \in sortByDateFile(db.contacts) :
                   resp' = Response("get", 200, 0, (CHOOSE u \in authData : TRUE).id,
                                    userContacts, 0)

FileGet(auth) ==
    LET db == readDb
        authData == getUserFromAuth(auth, db)
    IN  /\ variant = "file"
        /\ Accept
        /\ StoreUnchanged /\ HistoryUnchanged /\ UNCHANGED <<variant, twin, app, static, fresh, req>>
        /\ IF authData = {}
           THEN resp' = Reply("get", 401, "Non autorise.")
           ELSE LET user == CHOOSE u \in authData : TRUE
                    mine(c) == c.userId = user.id
                IN  \E userContacts \in sortByDateFile(SelectSeq(db.contacts, mine)) :
                        resp' = Response("get", 200, 0, user.id, userContacts, 0)

\* PUT /api/sync up to "await parseBody(req)": the file is read, the token checked
FilePutStart(r, auth) ==
    LET db == readDb
        authData == getUserFromAuth(auth, db)
    IN  /\ variant = "file"
        /\ Accept
        /\ FreeSlot(r)
        /\ StoreUnchanged /\ HistoryUnchanged /\ UNCHANGED <<variant, twin, app, static, fresh>>
        /\ IF authData = {}
           THEN /\ resp' = Reply("put", 401, "Non autorise.")
                /\ UNCHANGED req
           ELSE /\ req' = [req EXCEPT ![r] =
                              [Idle EXCEPT !.op = "put", !.pc = "body", !.db = db,
                                           !.uid = (CHOOSE u \in authData : TRUE).id]]
                /\ UNCHANGED resp

\* PUT /api/sync from the parsed body on: the object read before the await is
\* changed and written back whole
FilePutFinish(r, body) ==
    LET db == req[r].db
        userId == req[r].uid
        sanitizedContacts == sanitizeFile(body.contacts, userId, fresh)
        others(c) == c.userId # userId
    IN  /\ variant = "file"
        /\ req[r].op = "put" /\ req[r].pc = "body"
        /\ UNCHANGED started
        /\ UNCHANGED <<variant, twin, app, static, issuedLog, revoked, registered>>
        /\ IF ~body.isArray
           THEN /\ resp' = Reply("put", 400, "Format invalide: contacts attendus.")
                /\ req' = [req EXCEPT ![r] = Idle]
                /\ StoreUnchanged /\ UNCHANGED <<fresh, lastPush>>
           ELSE /\ fresh' = fresh + missingIds(body.contacts)
                /\ writeDb([db EXCEPT !.contacts =
                               SelectSeq(db.contacts, others) \o sanitizedContacts])
                /\ resp' = Response("put", 200, 0, userId, <<>>, Len(sanitizedContacts))
                /\ lastPush' = Landed(userId, sanitizedContacts)
                /\ req' = NoteRival(r, userId, sanitizedContacts)

FileNext ==
    \/ \E e \in RawEmails, p \in RegisterPasswords, s \in Salts : FileRegister(e, p, s)
    \/ \E e \in RawEmails, p \in LoginPasswords : FileLogin(e, p)
    \/ \E h \in Headers : FileLogout(h)
    \/ \E h \in Headers : FileGet(h)
    \/ \E r \in Reqs, h \in Headers : FilePutStart(r, h)
    \/ \E r \in Reqs, b \in Bodies : FilePutFinish(r, b)

-----------------------------------------------------------------------------
(* The relational server. Every pool.query / client.query is an await: one  *)
(* step per statement. Statements run under PostgreSQL's default READ       *)
(* COMMITTED isolation; a transaction's changes are in its request slot     *)
(* (pendDel, pendIns) until COMMIT.                                         *)

\* getUserFromAuth of the relational server: SELECT ... FROM sessions s JOIN users u
getUserFromAuthPg(auth) ==
    LET token == bearerToken(auth)
    IN  IF token = NoToken THEN {}
        ELSE {u \in users : \E s \in sessions : s.token = token /\ s.userId = u.id}

InTransaction(q) == req[q].op = "put" /\ req[q].pc \in {"deleteWait", "insert", "commit"}

\* ids of the committed rows other open transactions have deleted (and so locked)
LockedByOthers(r) ==
    UNION {req[q].pendDel : q \in {x \in Reqs \ {r} : InTransaction(x)}}

\* the row the next INSERT of r sends
NextRow(r) == req[r].san[Len(req[r].pendIns) + 1]

\* the open transactions the next statement of r has to wait for
WaitsFor(r) ==
    IF ~InTransaction(r) THEN {}
    ELSE IF req[r].pc = "deleteWait"
    THEN {q \in Reqs \ {r} : InTransaction(q) /\ req[q].pendDel \cap req[r].delSnap # {}}
    ELSE IF req[r].pc = "insert"
    THEN {q \in Reqs \ {r} :
            /\ InTransaction(q)
            /\ \/ NextRow(r).id \in req[q].pendDel
               \/ \E i \in DOMAIN req[q].pendIns : req[q].pendIns[i].id = NextRow(r).id}
    ELSE {}

\* POST /api/auth/register up to the answer of SELECT id FROM users WHERE email = $1
PgRegister(r, rawEmail, rawPassword, salt) ==
    LET email == normalizeEmail(rawEmail)
        password == normalizePassword(rawPassword)
        existing == {u \in users : u.email = email}
        hs == hashPassword(password, salt)
    IN  /\ variant = "pg"
        /\ Accept
        /\ FreeSlot(r)
        /\ StoreUnchanged /\ HistoryUnchanged /\ UNCHANGED <<variant, twin, app, static>>
        /\ IF ~isValidEmail(email)
           THEN /\ resp' = Reply("register", 400, "Adresse email invalide.")
                /\ UNCHANGED <<req, fresh>>
           ELSE IF ~isValidPassword(password)
           THEN /\ resp' = Reply("register", 400, "Mot de passe trop court (8 caracteres minimum).")
                /\ UNCHANGED <<req, fresh>>
           ELSE IF existing # {}
           THEN /\ resp' = Reply("register", 409, "Ce compte existe deja. Connecte-toi.")
                /\ UNCHANGED <<req, fresh>>
           ELSE /\ fresh' = fresh + 1
                /\ req' = [req EXCEPT ![r] =
                              [Idle EXCEPT !.op = "register", !.pc = "insertUser",
                                           !.uid = fresh + 1, !.email = email,
                                           !.password = password,
                                           !.hash = hs.hash, !.salt = hs.salt]]
                /\ UNCHANGED resp

\* the INSERT INTO users of a table whose email column is not UNIQUE
PgInsertUserUnconstrained(r) ==
    LET user == [id |-> req[r].uid, email |-> req[r].email,
                 passwordHash |-> req[r].hash, passwordSalt |-> req[r].salt]
    IN  /\ variant = "pg"
        /\ req[r].op = "register" /\ req[r].pc = "insertUser"
        /\ HistoryUnchanged /\ UNCHANGED <<variant, twin, app, static, started, sessions, contacts, resp>>
        /\ users' = users \cup {user}
        /\ fresh' = fresh + 1
        /\ req' = [req EXCEPT ![r].pc = "deleteSessions", ![r].token = fresh + 1]

\* INSERT INTO users(...), then issueSession up to its DELETE being sent
PgInsertUser(r) ==
    LET user == [id |-> req[r].uid, email |-> req[r].email,
                 passwordHash |-> req[r].hash, passwordSalt |-> req[r].salt]
    IN  /\ variant = "pg"
        /\ req[r].op = "register" /\ req[r].pc = "insertUser"
        /\ HistoryUnchanged /\ UNCHANGED <<variant, twin, app, static, started, sessions, contacts>>
        /\ IF \E u \in users : u.email = user.email \/ u.id = user.id
           THEN \* email TEXT UNIQUE: the query throws, the handler's catch answers
                /\ resp' = Reply("register", 400, "Requete invalide.")
                /\ req' = [req EXCEPT ![r] = Idle]
                /\ UNCHANGED <<users, fresh>>
           ELSE /\ users' = users \cup {user}
                /\ fresh' = fresh + 1
                /\ req' = [req EXCEPT ![r].pc = "deleteSessions", ![r].token = fresh + 1]
                /\ UNCHANGED resp

\* POST /api/auth/login up to the answer of its SELECT, then issueSession up to its
\* DELETE being sent
PgLogin(r, rawEmail, rawPassword) ==
    LET email == normalizeEmail(rawEmail)
        password == normalizePassword(rawPassword)
        found == {u \in users : u.email = email}
    IN  /\ variant = "pg"
        /\ Accept
        /\ FreeSlot(r)
        /\ StoreUnchanged /\ HistoryUnchanged /\ UNCHANGED <<variant, twin, app, static>>
        /\ IF ~isValidEmail(email)
           THEN /\ resp' = Reply("login", 400, "Adresse email invalide.")
                /\ UNCHANGED <<req, fresh>>
           ELSE IF found = {}
           THEN /\ resp' = Reply("login", 404, "Compte introuvable. Cree un compte.")
                /\ UNCHANGED <<req, fresh>>
           ELSE LET user == CHOOSE u \in found : TRUE
                IN  IF ~verifyPassword(password, user.passwordSalt, user.passwordHash)
                    THEN /\ resp' = Reply("login", 401, "Email ou mot de passe incorrect.")
                         /\ UNCHANGED <<req, fresh>>
                    ELSE /\ fresh' = fresh + 1
                         /\ req' = [req EXCEPT ![r] =
                                       [Idle EXCEPT !.op = "login", !.pc = "deleteSessions",
                                                    !.uid = user.id, !.token = fresh + 1]]
                         /\ UNCHANGED resp

\* issueSession: DELETE FROM sessions WHERE user_id = $1
PgDeleteSessions(r) ==
    /\ variant = "pg"
    /\ req[r].pc = "deleteSessions"
    /\ sessions' = {s \in sessions : s.userId # req[r].uid}
    /\ req' = [req EXCEPT ![r].pc = "insertSession"]
    /\ HistoryUnchanged /\ UNCHANGED <<variant, twin, app, static, started, users, contacts, fresh, resp>>

\* issueSession: INSERT INTO sessions(token, user_id), and the handler's answer
PgInsertSession(r) ==
    /\ variant = "pg"
    /\ req[r].pc = "insertSession"
    /\ sessions' = sessions \cup {[token |-> req[r].token, userId |-> req[r].uid]}
    /\ resp' = Response(req[r].op, IF req[r].op = "register" THEN 201 ELSE 200,
                        req[r].token, req[r].uid, <<>>, 0)
    /\ issuedLog' = Append(issuedLog, [token |-> req[r].token, uid |-> req[r].uid])
    /\ registered' =
          IF req[r].op = "register"
          THEN registered \cup {[email |-> req[r].email, password |-> req[r].password,
                                 id |-> req[r].uid]}
          ELSE registered
    /\ req' = [req EXCEPT ![r] = Idle]
    /\ UNCHANGED <<variant, twin, app, static, started, users, contacts, fresh, revoked, lastPush>>

\* POST /api/auth/logout
PgLogout(auth) ==
    LET token == bearerToken(auth)
    IN  /\ variant = "pg"
        /\ Accept
        /\ sessions' = IF token # NoToken
                       THEN {s \in sessions : s.token # token}
                       ELSE sessions
        /\ resp' = Response("logout", 200, 0, 0, <<>>, 0)
        /\ revoked' = IF token = NoToken THEN revoked ELSE revoked \cup {token}
        /\ UNCHANGED <<variant, twin, app, static, users, contacts, fresh, req, issuedLog, registered, lastPush>>

\* GET /api/sync up to the answer of getUserFromAuth
PgGetAuth(r, auth) ==
    LET authData == getUserFromAuthPg(auth)
    IN  /\ variant = "pg"
        /\ Accept
        /\ FreeSlot(r)
        /\ StoreUnchanged /\ HistoryUnchanged /\ UNCHANGED <<variant, twin, app, static, fresh>>
        /\ IF authData = {}
           THEN /\ resp' = Reply("get", 401, "Non autorise.")
                /\ UNCHANGED req
           ELSE /\ req' = [req EXCEPT ![r] =
                              [Idle EXCEPT !.op = "get", !.pc = "selectContacts",
                                           !.uid = (CHOOSE u \in authData : TRUE).id]]
                /\ UNCHANGED resp

\* GET /api/sync: SELECT ... FROM contacts WHERE user_id = $1 ORDER BY date_appel DESC
PgGetContacts(r) ==
    LET mine(c) == c.userId = req[r].uid
    IN  /\ variant = "pg"
        /\ req[r].op = "get" /\ req[r].pc = "selectContacts"
        /\ \E rows \in orderByDatePg(SelectSeq(contacts, mine)) :
               resp' = Response("get", 200, 0, req[r].uid, rows, 0)
        /\ req' = [req EXCEPT ![r] = Idle]
        /\ StoreUnchanged /\ HistoryUnchanged /\ UNCHANGED <<variant, twin, app, static, started, fresh>>

\* PUT /api/sync up to "await parseBody(req)": pool.connect(), getUserFromAuth
PgPutAuth(r, auth) ==
    LET authData == getUserFromAuthPg(auth)
    IN  /\ variant = "pg"
        /\ Accept
        /\ FreeSlot(r)
        /\ StoreUnchanged /\ HistoryUnchanged /\ UNCHANGED <<variant, twin, app, static, fresh>>
        /\ IF authData = {}
           THEN /\ resp' = Reply("put", 401, "Non autorise.")
                /\ UNCHANGED req
           ELSE /\ req' = [req EXCEPT ![r] =
                              [Idle EXCEPT !.op = "put", !.pc = "body",
                                           !.uid = (CHOOSE u \in authData : TRUE).id]]
                /\ UNCHANGED resp

\* where the transaction goes once its DELETE is through
AfterDelete(san) == IF san = <<>> THEN "commit" ELSE "insert"

\* PUT /api/sync: the parsed body, the map and filter, BEGIN, and DELETE FROM
\* contacts WHERE user_id = $1 reaching the database. The DELETE sees the rows
\* committed by now; a row another open transaction has deleted makes it wait for
\* that transaction
PgPutBody(r, body) ==
    LET san == sanitizePg(body.contacts, req[r].uid, fresh)
        snapshot == {contacts[i].id : i \in {j \in DOMAIN contacts :
                                              contacts[j].userId = req[r].uid}}
    IN  /\ variant = "pg"
        /\ req[r].op = "put" /\ req[r].pc = "body"
        /\ StoreUnchanged /\ HistoryUnchanged /\ UNCHANGED <<variant, twin, app, static, started>>
        /\ IF ~body.isArray
           THEN /\ resp' = Reply("put", 400, "Format invalide: contacts attendus.")
                /\ req' = [req EXCEPT ![r] = Idle]
                /\ UNCHANGED fresh
           ELSE /\ fresh' = fresh + missingIds(body.contacts)
                /\ req' = IF snapshot \cap LockedByOthers(r) # {}
                          THEN [req EXCEPT ![r].pc = "deleteWait", ![r].san = san,
                                           ![r].delSnap = snapshot]
                          ELSE [req EXCEPT ![r].pc = AfterDelete(san), ![r].san = san,
                                           ![r].pendDel = snapshot]
                /\ UNCHANGED resp

\* the waiting DELETE goes on: it deletes what is left of the rows it saw
PgPutDeleteResume(r) ==
    /\ variant = "pg"
    /\ req[r].op = "put" /\ req[r].pc = "deleteWait"
    /\ WaitsFor(r) = {}
    /\ req' = [req EXCEPT ![r].pc = AfterDelete(req[r].san), ![r].pendDel = req[r].delSnap,
                          ![r].delSnap = {}]
    /\ StoreUnchanged /\ HistoryUnchanged /\ UNCHANGED <<variant, twin, app, static, started, fresh, resp>>

\* a catch block whose ROLLBACK undoes nothing: the statements that went through stay
PgPutFailKeepingStatements(r) ==
    LET kept(c) == c.id \notin req[r].pendDel
    IN  /\ resp' = Reply("put", 400, "Requete invalide.")
        /\ req' = [req EXCEPT ![r] = Idle]
        /\ contacts' = SelectSeq(contacts, kept) \o req[r].pendIns
        /\ HistoryUnchanged /\ UNCHANGED <<variant, twin, app, static, started, fresh, users, sessions>>

\* the catch block: ROLLBACK, 400
PgPutFail(r) ==
    /\ resp' = Reply("put", 400, "Requete invalide.")
    /\ req' = [req EXCEPT ![r] = Idle]
    /\ StoreUnchanged /\ HistoryUnchanged /\ UNCHANGED <<variant, twin, app, static, started, fresh>>

\* the next INSERT breaks contacts.id PRIMARY KEY: the id is in a committed row this
\* transaction has not deleted, or in a row it has inserted itself
UniqueViolation(r) ==
    \/ \E i \in DOMAIN req[r].pendIns : req[r].pendIns[i].id = NextRow(r).id
    \/ \E i \in DOMAIN contacts :
          contacts[i].id = NextRow(r).id /\ contacts[i].id \notin req[r].pendDel

\* PUT /api/sync: one INSERT INTO contacts of the loop
PgPutInsert(r) ==
    /\ variant = "pg"
    /\ req[r].op = "put" /\ req[r].pc = "insert"
    /\ WaitsFor(r) = {}
    /\ IF UniqueViolation(r)
       THEN PgPutFail(r)
       ELSE /\ req' = [req EXCEPT
                         ![r].pendIns = Append(req[r].pendIns, NextRow(r)),
                         ![r].pc = IF Len(req[r].pendIns) + 1 = Len(req[r].san)
                                   THEN "commit" ELSE "insert"]
            /\ StoreUnchanged /\ HistoryUnchanged
            /\ UNCHANGED <<variant, twin, app, static, started, fresh, resp>>

\* two transactions wait for each other: PostgreSQL aborts one, its query throws
PgPutDeadlock(r) ==
    /\ variant = "pg"
    /\ \E q \in WaitsFor(r) : r \in WaitsFor(q)
    /\ PgPutFail(r)

\* PUT /api/sync: COMMIT, and the handler's answer
PgPutCommit(r) ==
    LET kept(c) == c.id \notin req[r].pendDel
        san == req[r].san
        uid == req[r].uid
    IN  /\ variant = "pg"
        /\ req[r].op = "put" /\ req[r].pc = "commit"
        /\ contacts' = SelectSeq(contacts, kept) \o req[r].pendIns
        /\ resp' = Response("put", 200, 0, uid, <<>>, Len(san))
        /\ lastPush' = Landed(uid, san)
        /\ req' = [q \in Reqs |->
                     IF req[q].pc = "deleteWait"
                     THEN \* the rows this commit deletes are gone for a waiting DELETE
                          [NoteRival(r, uid, san)[q] EXCEPT
                              !.delSnap = req[q].delSnap \ req[r].pendDel]
                     ELSE NoteRival(r, uid, san)[q]]
        /\ UNCHANGED <<variant, twin, app, static, started, users, sessions, fresh,
                       issuedLog, revoked, registered>>

PgNext ==
    \/ \E r \in Reqs, e \in RawEmails, p \in RegisterPasswords, s \in Salts : PgRegister(r, e, p, s)
    \/ \E r \in Reqs : PgInsertUser(r)
    \/ \E r \in Reqs, e \in RawEmails, p \in LoginPasswords : PgLogin(r, e, p)
    \/ \E r \in Reqs : PgDeleteSessions(r)
    \/ \E r \in Reqs : PgInsertSession(r)
    \/ \E h \in Headers : PgLogout(h)
    \/ \E r \in Reqs, h \in Headers : PgGetAuth(r, h)
    \/ \E r \in Reqs : PgGetContacts(r)
    \/ \E r \in Reqs, h \in Headers : PgPutAuth(r, h)
    \/ \E r \in Reqs, b \in Bodies : PgPutBody(r, b)
    \/ \E r \in Reqs : PgPutDeleteResume(r)
    \/ \E r \in Reqs : PgPutInsert(r)
    \/ \E r \in Reqs : PgPutDeadlock(r)
    \/ \E r \in Reqs : PgPutCommit(r)

Next == FileNext \/ PgNext

Spec == Init /\ [][Next]_vars

-----------------------------------------------------------------------------
(* What a client can observe of the store *)

\* the users GET /api/sync and PUT /api/sync take the token for ({}: 401)
AuthUsers(t) ==
    IF variant = "file" THEN getUserFromAuth(Bearer(t), readDb)
    ELSE getUserFromAuthPg(Bearer(t))

\* the same of the store the step leaves
AuthUsersAfter(t) ==
    getUserFromAuth(Bearer(t), [users |-> users', sessions |-> sessions',
                                contacts |-> contacts'])

\* the rows of user uid as stored now
StoredOf(uid) ==
    LET mine(c) == c.userId = uid
    IN  SelectSeq(contacts, mine)

\* the lists a GET /api/sync of user uid can answer now
PullResults(uid) ==
    IF variant = "file" THEN sortByDateFile(StoredOf(uid)) ELSE orderByDatePg(StoredOf(uid))

\* the entries of a list whose date reads as a time are in descending order
DescendingWhereDated(l) ==
    \A i, j \in DOMAIN l :
        (i < j /\ IsDate(l[i].dateAppel) /\ IsDate(l[j].dateAppel))
            => getTime(l[i].dateAppel) >= getTime(l[j].dateAppel)

\* email as the servers compare it: trimmed and lower-cased
Canonical(rawEmail) == toLowerCase(trim(rawEmail))

-----------------------------------------------------------------------------
(* Sessions *)

\* C1: in the step in which a login or register answers with a token, that token
\* authenticates as the user and every token answered to that user before is
\* rejected with 401
C1_NewTokenSupersedes ==
    [][issuedLog' # issuedLog =>
         LET new == issuedLog'[Len(issuedLog')]
         IN  /\ \E u \in AuthUsersAfter(new.token) : u.id = new.uid
             /\ \A i \in DOMAIN issuedLog :
                   issuedLog[i].uid = new.uid => AuthUsersAfter(issuedLog[i].token) = {}]_vars

\* C2: the session store never holds two sessions of one user
C2_OneSessionPerUser ==
    \A s1, s2 \in sessions : s1.userId = s2.userId => s1 = s2

-----------------------------------------------------------------------------
(* Push and pull *)

\* C3: after a push of a user has answered 200, and until the next push of that user
\* does, a pull of that user answers exactly the sanitized records of that push, the
\* dated ones in descending order
C3_PullReturnsLastPush ==
    \A p \in lastPush :
        \A got \in PullResults(p.uid) :
            /\ Len(got) = Len(p.san)
            /\ Range(got) = Range(p.san)
            /\ DescendingWhereDated(got)

\* C4: when a push answers 200 and another push of the same user has answered 200
\* while it was under way, the user's stored records are the sanitized records of one
\* of the two
C4_OverlappingPushesOneWins ==
    [][\A r \in Reqs :
          (/\ req[r].op = "put" /\ req[r].rival.landed
           /\ req'[r].op = "idle"
           /\ resp'.op = "put" /\ resp'.status = 200)
          => LET mine(c) == c.userId = req[r].uid
                 stored == Range(SelectSeq(contacts', mine))
                 last == CHOOSE p \in lastPush' : p.uid = req[r].uid
             IN  stored \in {Range(last.san), Range(req[r].rival.san)}]_vars

\* C5: the stored contacts change only in the step in which a push answers 200, and
\* that step stores every sanitized record of the push and adds nothing else to the
\* user's records: a push that answers 401 or 400 changes nothing, and no step leaves
\* a set for a pull to read between the old records and the new
C5_ReplaceAllOrNothing ==
    [][contacts' # contacts =>
         \E r \in Reqs :
            /\ req[r].op = "put" /\ req'[r].op = "idle"
            /\ resp'.op = "put" /\ resp'.status = 200
            /\ \E p \in lastPush' :
                  LET mine(c) == c.userId = req[r].uid
                      after == Range(SelectSeq(contacts', mine))
                  IN  /\ p.uid = req[r].uid
                      /\ resp'.count = Len(p.san)
                      /\ Range(p.san) \subseteq after
                      /\ after \ Range(p.san) \subseteq Range(StoredOf(req[r].uid))]_vars

\* a push was answered 400 by the catch block while a user's pushed records are stored
C5_FailedInsertLeftRecords ==
    /\ resp.op = "put" /\ resp.status = 400 /\ resp.error = "Requete invalide."
    /\ \E p \in lastPush : p.san # <<>> /\ StoredOf(p.uid) = p.san

-----------------------------------------------------------------------------
(* Revocation and the life of an account *)

\* C6: a token whose logout answered 200, or that a later login or register of its
\* user has replaced, is never taken by GET or PUT /api/sync again
C6_RevokedNeverAccepted ==
    /\ \A t \in revoked : AuthUsers(t) = {}
    /\ \A i, j \in DOMAIN issuedLog :
          (i < j /\ issuedLog[i].uid = issuedLog[j].uid) => AuthUsers(issuedLog[i].token) = {}

\* C7: a user whose register answered 201 stays in the store under the same id and
\* email, and the registered password still verifies: a login with them answers 200
C7_RegisteredUserStays ==
    \A g \in registered :
        \E u \in users :
            /\ u.id = g.id
            /\ u.email = g.email
            /\ verifyPassword(g.password, u.passwordSalt, u.passwordHash)

-----------------------------------------------------------------------------
(* Register and login *)

\* the step in which a register request with these fields is taken up and, in the
\* relational server, its SELECT answered
RegisterStep(rawEmail, rawPassword, salt) ==
    \/ FileRegister(rawEmail, rawPassword, salt)
    \/ \E r \in Reqs : PgRegister(r, rawEmail, rawPassword, salt)

\* the same for a login request
LoginStep(rawEmail, rawPassword) ==
    \/ FileLogin(rawEmail, rawPassword)
    \/ \E r \in Reqs : PgLogin(r, rawEmail, rawPassword)

\* the request is answered in this step, with this status, and changes no stored
\* user, session or contact
RefusedWith(op, status) ==
    /\ resp'.op = op /\ resp'.status = status
    /\ req' = req
    /\ UNCHANGED <<users, sessions, contacts>>

EmailTaken(rawEmail) == \E u \in users : u.email = Canonical(rawEmail)

\* C8, as stated: a register whose trimmed, lower-cased email is the email of a stored
\* user answers 409 and changes no user, session or contact
C8_RegisterTakenEmailAnswers409 ==
    [][\A e \in RawEmails, p \in RegisterPasswords, s \in Salts :
          (RegisterStep(e, p, s) /\ EmailTaken(e)) => RefusedWith("register", 409)]_vars

\* C8, amended: such a register changes no user, session or contact, and answers 409
\* when its password has at least 8 characters and 400 when it is shorter
C8_RegisterTakenEmailRefused ==
    [][\A e \in RawEmails, p \in RegisterPasswords, s \in Salts :
          (RegisterStep(e, p, s) /\ EmailTaken(e)) =>
              IF Len(p) >= MinPasswordLength
              THEN RefusedWith("register", 409)
              ELSE RefusedWith("register", 400)]_vars

\* a register was answered 409 while the user's session is stored
C8_ConflictAnswered ==
    /\ resp.op = "register" /\ resp.status = 409
    /\ \E u \in users : \E s \in sessions : s.userId = u.id

\* C9: no two stored users have the same trimmed, lower-cased email
C9_EmailsUnique ==
    \A u1, u2 \in users : Canonical(u1.email) = Canonical(u2.email) => u1 = u2

\* in the relational server a register that had passed the existence check was
\* refused by the INSERT, the email being stored by then
C9_SecondInsertRefused ==
    /\ variant = "pg"
    /\ resp.op = "register" /\ resp.status = 400 /\ resp.error = "Requete invalide."
    /\ users # {}

\* C10: a login with a well-formed email no user has answers 404, one with a stored
\* user's email and another password than the registered one answers 401, and neither
\* creates or deletes a session
C10_FailedLoginKeepsSessions ==
    [][\A e \in RawEmails, p \in LoginPasswords :
          (LoginStep(e, p) /\ isValidEmail(Canonical(e))) =>
              /\ ~EmailTaken(e) => RefusedWith("login", 404)
              /\ (\E g \in registered :
                     /\ g.email = Canonical(e) /\ g.password # p
                     /\ \E u \in users : u.id = g.id /\ u.email = g.email)
                 => RefusedWith("login", 401)]_vars

\* a login was answered 401 and the session the user held is still stored
C10_WrongPasswordAnswered ==
    /\ resp.op = "login" /\ resp.status = 401
    /\ \E g \in registered : \E s \in sessions : s.userId = g.id

\* C11: a register whose trimmed, lower-cased email lacks "@" or lacks ".", or whose
\* password has fewer than 8 characters, answers 400 and changes no user and no
\* session; one with a well-formed email no user has and a password of 8 characters
\* or more goes on to create the user; the creation adds exactly one user, under that
\* email; a register ends with 201 unless the email was stored by the time of its
\* INSERT; and the step that answers 201 adds exactly one session, whose token
\* authenticates as the new user
C11_RegisterValidatesAndCreates ==
    [][/\ \A e \in RawEmails, p \in RegisterPasswords, s \in Salts :
             RegisterStep(e, p, s) =>
                 IF \/ ~includes(Canonical(e), "@") \/ ~includes(Canonical(e), ".")
                    \/ Len(p) < MinPasswordLength
                 THEN RefusedWith("register", 400)
                 ELSE EmailTaken(e) \/
                      IF variant = "file"
                      THEN resp'.op = "register" /\ resp'.status = 201
                      ELSE \E r \in Reqs : /\ req'[r].op = "register"
                                           /\ req'[r].email = Canonical(e)
                                           /\ req[r].op = "idle"
       /\ \A r \in Reqs :
             (PgInsertUser(r) /\ ~\E u \in users : u.email = req[r].email) =>
                 /\ users \subseteq users'
                 /\ \E u \in users' \ users :
                       /\ users' \ users = {u}
                       /\ u.id = req[r].uid /\ u.email = req[r].email
                 /\ sessions' = sessions
       /\ \A r \in Reqs :
             (req[r].op = "register" /\ req'[r].op = "idle") =>
                 \/ resp'.op = "register" /\ resp'.status = 201
                 \/ /\ resp'.op = "register" /\ resp'.status = 400
                    /\ \E u \in users : u.email = req[r].email
       /\ (resp'.op = "register" /\ resp'.status = 201 /\ issuedLog' # issuedLog) =>
             LET new == [token |-> resp'.token, userId |-> resp'.uid]
             IN  /\ sessions' \ sessions = {new}
                 /\ \E u \in users' :
                       /\ u.id = new.userId
                       /\ AuthUsersAfter(new.token) = {u}
                       /\ \A v \in users' : v.id = u.id => v = u
                       /\ variant = "file" => (users \subseteq users' /\ users' \ users = {u})]_vars

\* a register was answered 201 and its token authenticates as the user it names
C11_RegisterAnswered201 ==
    /\ resp.op = "register" /\ resp.status = 201
    /\ \E u \in AuthUsers(resp.token) : u.id = resp.uid

-----------------------------------------------------------------------------
(* Logout and unauthenticated requests *)

\* the step of a logout request with this Authorization header
LogoutStep(auth) == FileLogout(auth) \/ PgLogout(auth)

\* C12: a logout answers 200 whatever its Authorization header; it removes no session
\* but the one whose token the header bears, changes no user and no contact, and in
\* the state it leaves a GET /api/sync with the same header is not authenticated
C12_LogoutRemovesOnlyItsSession ==
    [][\A h \in Headers :
          LogoutStep(h) =>
              /\ resp'.op = "logout" /\ resp'.status = 200
              /\ users' = users /\ contacts' = contacts /\ req' = req
              /\ sessions' \subseteq sessions
              /\ \A s \in sessions \ sessions' : h = Bearer(s.token)
              /\ getUserFromAuth(h, [users |-> users', sessions |-> sessions',
                                     contacts |-> contacts']) = {}]_vars

\* a logout was answered 200 for a token a user held, and no session is left
C12_LiveTokenLoggedOut ==
    /\ resp.op = "logout" /\ resp.status = 200
    /\ revoked \cap KnownTokens # {}
    /\ users # {} /\ sessions = {}

\* the step in which a GET /api/sync with this header is taken up and authenticated
GetStep(auth) == FileGet(auth) \/ \E r \in Reqs : PgGetAuth(r, auth)

\* the same for a PUT /api/sync
PutStep(auth) == \E r \in Reqs : FilePutStart(r, auth) \/ PgPutAuth(r, auth)

\* the header is absent, is not a Bearer header, or bears a token no session has
Unauthenticated(auth) ==
    \/ auth = NoHeader
    \/ auth[1] # "Bearer "
    \/ ~\E s \in sessions : s.token = auth[2]

\* C13: a GET or PUT /api/sync whose Authorization header is absent, is not a Bearer
\* header, or bears a token of no session answers 401 and changes no user, session or
\* contact
C13_UnauthenticatedSyncAnswers401 ==
    [][\A h \in Headers :
          Unauthenticated(h) =>
              /\ GetStep(h) => RefusedWith("get", 401)
              /\ PutStep(h) => RefusedWith("put", 401)]_vars

\* a GET or PUT /api/sync was answered 401 while a session is stored
C13_SyncRefused ==
    /\ resp.op \in {"get", "put"} /\ resp.status = 401
    /\ sessions # {}

-----------------------------------------------------------------------------
(* The stored records *)

\* C14: every session's user id is the id of exactly one stored user, and every
\* stored contact's user id is the id of a stored user
C14_SessionsAndContactsHaveUsers ==
    /\ \A s \in sessions : Cardinality({u \in users : u.id = s.userId}) = 1
    /\ \A i \in DOMAIN contacts : \E u \in users : u.id = contacts[i].userId

\* two users are stored, with a session and a contact
C14_TwoUsersWithRecords ==
    /\ Cardinality(users) >= 2
    /\ sessions # {} /\ contacts # <<>>

\* a submitted record has an empty name, organisation or date once trimmed
HasEmptyField(c) ==
    trim(c.nom) = <<>> \/ trim(c.organisation) = <<>> \/ trim(c.dateAppel) = <<>>

\* the ids of a list of records, in order
IdsOf(l) == [i \in DOMAIN l |-> l[i].id]

\* the submitted records with a name, an organisation and a date, in order
Filled(cs) ==
    LET full(c) == ~HasEmptyField(c)
    IN  SelectSeq(cs, full)

\* the same, without the records whose date does not parse
FilledAndDated(cs) ==
    LET dated(c) == ~HasEmptyField(c) /\ IsDate(trim(c.dateAppel))
    IN  SelectSeq(cs, dated)

\* a push whose body holds a record with an empty field is not refused for it, and
\* the records it stores, and counts in its answer, are the ones of the list
\* expected(body.contacts); dated: the relational server parses the date
PushDropsTo(dated) ==
    LET expected(cs) == IF dated /\ variant = "pg" THEN FilledAndDated(cs) ELSE Filled(cs)
    IN
    /\ \A r \in Reqs, b \in Bodies :
          (b.isArray /\ \E i \in DOMAIN b.contacts : HasEmptyField(b.contacts[i])) =>
              /\ FilePutFinish(r, b) =>
                    /\ resp'.op = "put" /\ resp'.status = 200
                    /\ resp'.count = Len(expected(b.contacts))
                    /\ LET mine(c) == c.userId = req[r].uid
                       IN  IdsOf(SelectSeq(contacts', mine)) = IdsOf(expected(b.contacts))
              /\ PgPutBody(r, b) =>
                    /\ resp' = resp /\ req'[r].op = "put"
                    /\ IdsOf(req'[r].san) = IdsOf(expected(b.contacts))
    /\ \A r \in Reqs :
          PgPutCommit(r) =>
              /\ resp'.op = "put" /\ resp'.status = 200
              /\ resp'.count = Len(req[r].san)
              /\ Range(req[r].san) \subseteq Range(contacts')

C16_StoredContactsValid ==
    \A i \in DOMAIN contacts :
        /\ contacts[i].nom # <<>>
        /\ contacts[i].organisation # <<>>
        /\ IsDate(contacts[i].dateAppel)

-----------------------------------------------------------------------------
(* The two servers side by side. Requests are executed one at a time: every  *)
(* handler runs from its first statement to its answer before the next       *)
(* request is sent, and each request is given to both servers.               *)

MaxSeqRequests == 4

\* what a handler run to its end leaves: the store, the id counter, the answer
Outcome(db, n, answer) == [db |-> db, fresh |-> n, resp |-> answer]

\* POST /api/auth/register run to its end on server v
SeqRegister(v, db, n, rawEmail, rawPassword, salt) ==
    LET email == normalizeEmail(rawEmail)
        password == normalizePassword(rawPassword)
        existing == {u \in db.users : u.email = email}
        hs == hashPassword(password, salt)
        taken == IF v = "file"
                 THEN \E u \in existing : u.passwordHash # <<>> /\ u.passwordSalt # ""
                 ELSE existing # {}
    IN  IF ~isValidEmail(email)
        THEN Outcome(db, n, Reply("register", 400, "Adresse email invalide."))
        ELSE IF ~isValidPassword(password)
        THEN Outcome(db, n, Reply("register", 400,
                                  "Mot de passe trop court (8 caracteres minimum)."))
        ELSE IF taken
        THEN Outcome(db, n, Reply("register", 409, "Ce compte existe deja. Connecte-toi."))
        ELSE IF existing = {}
        THEN LET user == [id |-> n + 1, email |-> email,
                          passwordHash |-> hs.hash, passwordSalt |-> hs.salt]
                 db1 == [db EXCEPT !.users = db.users \cup {user}]
             IN  Outcome(issueSession(db1, n + 1, n + 2), n + 2,
                         Response("register", 201, n + 2, n + 1, <<>>, 0))
        ELSE LET old == CHOOSE u \in existing : TRUE
                 user == [old EXCEPT !.passwordHash = hs.hash, !.passwordSalt = hs.salt]
                 db1 == [db EXCEPT !.users = (db.users \ {old}) \cup {user}]
             IN  Outcome(issueSession(db1, old.id, n + 1), n + 1,
                         Response("register", 201, n + 1, old.id, <<>>, 0))

\* POST /api/auth/login run to its end on server v
SeqLogin(v, db, n, rawEmail, rawPassword) ==
    LET email == normalizeEmail(rawEmail)
        password == normalizePassword(rawPassword)
        found == {u \in db.users : u.email = email}
        missing == IF v = "file"
                   THEN \A u \in found : u.passwordHash = <<>> \/ u.passwordSalt = ""
                   ELSE found = {}
    IN  IF ~isValidEmail(email)
        THEN Outcome(db, n, Reply("login", 400, "Adresse email invalide."))
        ELSE IF missing
        THEN Outcome(db, n, Reply("login", 404, "Compte introuvable. Cree un compte."))
        ELSE LET user == CHOOSE u \in found : TRUE
             IN  IF ~verifyPassword(password, user.passwordSalt, user.passwordHash)
                 THEN Outcome(db, n, Reply("login", 401, "Email ou mot de passe incorrect."))
                 ELSE Outcome(issueSession(db, user.id, n + 1), n + 1,
                              Response("login", 200, n + 1, user.id, <<>>, 0))

\* POST /api/auth/logout run to its end: both servers drop the token's session
SeqLogout(v, db, n, auth) ==
    LET token == bearerToken(auth)
    IN  Outcome([db EXCEPT !.sessions = {s \in db.sessions : s.token # token}], n,
                Response("logout", 200, 0, 0, <<>>, 0))

\* GET /api/sync run to its end on server v: the answers it can give
SeqGet(v, db, n, auth) ==
    LET authData == getUserFromAuth(auth, db)
        user == CHOOSE u \in authData : TRUE
        mine(c) == c.userId = user.id
        rows == SelectSeq(db.contacts, mine)
    IN  IF authData = {}
        THEN {Outcome(db, n, Reply("get", 401, "Non autorise."))}
        ELSE {Outcome(db, n, Response("get", 200, 0, user.id, l, 0)) :
                l \in IF v = "file" THEN sortByDateFile(rows) ELSE orderByDatePg(rows)}

\* contacts.id PRIMARY KEY: after the DELETE of the user's rows, an INSERT of the
\* loop meets an id that another user's row or an earlier INSERT of the loop has
PrimaryKeyViolation(db, userId, san) ==
    \/ \E i, j \in DOMAIN san : i < j /\ san[i].id = san[j].id
    \/ \E i \in DOMAIN san, k \in DOMAIN db.contacts :
          db.contacts[k].userId # userId /\ db.contacts[k].id = san[i].id

\* PUT /api/sync run to its end on server v
SeqPut(v, db, n, auth, body) ==
    LET authData == getUserFromAuth(auth, db)
        userId == (CHOOSE u \in authData : TRUE).id
        sanitizedContacts == IF v = "file" THEN sanitizeFile(body.contacts, userId, n)
                             ELSE sanitizePg(body.contacts, userId, n)
        others(c) == c.userId # userId
        db1 == [db EXCEPT !.contacts = SelectSeq(db.contacts, others) \o sanitizedContacts]
        n1 == n + missingIds(body.contacts)
    IN  IF authData = {}
        THEN Outcome(db, n, Reply("put", 401, "Non autorise."))
        ELSE IF ~body.isArray
        THEN Outcome(db, n, Reply("put", 400, "Format invalide: contacts attendus."))
        ELSE IF v = "pg" /\ PrimaryKeyViolation(db, userId, sanitizedContacts)
        THEN Outcome(db, n1, Reply("put", 400, "Requete invalide."))
        ELSE Outcome(db1, n1, Response("put", 200, 0, userId, <<>>, Len(sanitizedContacts)))

\* the headers a client of the two servers can send
SeqHeaders ==
    {NoHeader} \cup {Bearer(t) : t \in twin.tokens \cup BogusTokens}

InitSeq ==
    /\ variant = "both"
    /\ users = {} /\ sessions = {} /\ contacts = <<>>
    /\ fresh = 0
    /\ started = 0
    /\ req = [r \in Reqs |-> Idle]
    /\ resp = NoResponse
    /\ issuedLog = <<>>
    /\ revoked = {}
    /\ registered = {}
    /\ lastPush = {}
    /\ twin = NoTwin
    /\ app = NoApp
    /\ static = NoStatic

\* one request answered by both servers
Both(f, p) ==
    /\ started < MaxSeqRequests
    /\ started' = started + 1
    /\ twin' = [file |-> f.db, pg |-> p.db, fresh |-> IF f.fresh >= p.fresh THEN f.fresh ELSE p.fresh,
                tokens |-> twin.tokens \cup ({f.resp.token, p.resp.token} \ {NoToken}),
                fileResp |-> f.resp, pgResp |-> p.resp]
    /\ UNCHANGED <<variant, app, static, users, sessions, contacts, fresh, req, resp,
                   issuedLog, revoked, registered, lastPush>>

BothRegister(e, p, s) ==
    Both(SeqRegister("file", twin.file, twin.fresh, e, p, s),
         SeqRegister("pg", twin.pg, twin.fresh, e, p, s))

BothLogin(e, p) ==
    Both(SeqLogin("file", twin.file, twin.fresh, e, p),
         SeqLogin("pg", twin.pg, twin.fresh, e, p))

BothLogout(h) ==
    Both(SeqLogout("file", twin.file, twin.fresh, h),
         SeqLogout("pg", twin.pg, twin.fresh, h))

BothGet(h) ==
    \E f \in SeqGet("file", twin.file, twin.fresh, h),
       p \in SeqGet("pg", twin.pg, twin.fresh, h) : Both(f, p)

BothPut(h, b) ==
    Both(SeqPut("file", twin.file, twin.fresh, h, b),
         SeqPut("pg", twin.pg, twin.fresh, h, b))

\* the contacts array the last GET /api/sync answered is pushed back, to each
\* server its own answer, with the token of the user it was answered to
BothPutPulled(h) ==
    /\ twin.fileResp.op = "get"
    /\ twin.fileResp.status = 200 /\ twin.pgResp.status = 200
    /\ \E u \in getUserFromAuth(h, twin.file) : u.id = twin.fileResp.uid
    /\ \E u \in getUserFromAuth(h, twin.pg) : u.id = twin.pgResp.uid
    /\ Both(SeqPut("file", twin.file, twin.fresh, h, ArrayBody(twin.fileResp.contacts)),
            SeqPut("pg", twin.pg, twin.fresh, h, ArrayBody(twin.pgResp.contacts)))

NextSeq ==
    \/ \E e \in RawEmails, p \in RegisterPasswords, s \in Salts : BothRegister(e, p, s)
    \/ \E e \in RawEmails, p \in LoginPasswords : BothLogin(e, p)
    \/ \E h \in SeqHeaders : BothLogout(h)
    \/ \E h \in SeqHeaders : BothGet(h)
    \/ \E h \in SeqHeaders, b \in Bodies : BothPut(h, b)
    \/ \E h \in SeqHeaders : BothPutPulled(h)

SpecSeq == InitSeq /\ [][NextSeq]_vars

\* C17: given the same requests one at a time from the empty store, the two servers
\* answer every request with the same status, and every pull with the same
\* contacts (told by their ids) in the same order
C17_VariantsAgree ==
    /\ twin.fileResp.status = twin.pgResp.status
    /\ IdsOf(twin.fileResp.contacts) = IdsOf(twin.pgResp.contacts)

-----------------------------------------------------------------------------
(* The client application on two devices, used by one person: one operation *)
(* of the page at a time, each request answered before the next is sent.    *)
(* The server is either of the two.                                         *)

MaxAppOps == 5

\* what the contact form holds at submit: name, organisation, datetime-local value
FormInputs ==
    { [nom |-> <<"A", " ">>, organisation |-> <<"o">>, dateAppel |-> <<"1">>],
      [nom |-> <<"B">>, organisation |-> <<"o">>, dateAppel |-> <<"2">>] }

\* updateAuthUi: const isLogged = Boolean(getToken() && email)
isLogged(d) == app.dev[d].token # NoToken /\ app.dev[d].email # <<>>

\* api(): if (token) headers.Authorization = `Bearer ${token}`
authorization(d) ==
    IF app.dev[d].token # NoToken THEN Bearer(app.dev[d].token) ELSE NoHeader

\* response.ok
ok(answer) == answer.status \in {200, 201}

\* the person starts an operation when the page is at rest
Quiet ==
    /\ \A d \in Devices : app.dev[d].pc = "idle"
    /\ started < MaxAppOps

\* the server handles one request: the handler of the server in use, run to its end
Serve(o) ==
    /\ users' = o.db.users /\ sessions' = o.db.sessions /\ contacts' = o.db.contacts
    /\ fresh' = o.fresh
    /\ resp' = o.resp
    /\ UNCHANGED <<variant, twin, static, req, issuedLog, revoked, registered, lastPush>>

\* the device's token is the session of an account
LoggedIn(d) == getUserFromAuth(authorization(d), readDb) # {}

InitApp ==
    /\ variant \in {"file", "pg"}
    /\ users = {} /\ sessions = {} /\ contacts = <<>>
    /\ fresh = 0
    /\ started = 0
    /\ req = [r \in Reqs |-> Idle]
    /\ resp = NoResponse
    /\ issuedLog = <<>>
    /\ revoked = {}
    /\ registered = {}
    /\ lastPush = {}
    /\ twin = NoTwin
    /\ app = NoApp
    /\ static = NoStatic

\* authenticate(path) up to "await pullRemoteData()"
authenticate(d, path, rawEmail, password, salt) ==
    LET email == toLowerCase(trim(rawEmail))
        o == IF path = "register"
             THEN SeqRegister(variant, readDb, fresh, email, password, salt)
             ELSE SeqLogin(variant, readDb, fresh, email, password)
    IN  /\ Quiet
        /\ ~isLogged(d)
        /\ email # <<>> /\ password # <<>>
        /\ started' = started + 1
        /\ Serve(o)
        /\ IF ok(o.resp)
           THEN app' = [app EXCEPT !.dev[d].token = o.resp.token,
                                   !.dev[d].email = email,
                                   !.dev[d].pc = "authPull"]
           ELSE UNCHANGED app

\* a pullRemoteData that renders what the device held
pullRemoteDataKeepingCache(d) ==
    /\ app.dev[d].pc \in {"authPull", "syncPull", "initPull"}
    /\ \E o \in SeqGet(variant, readDb, fresh, authorization(d)) :
          /\ Serve(o)
          /\ app' = [app EXCEPT !.dev[d].pc = "idle"]
    /\ UNCHANGED started

\* pullRemoteData(), awaited by authenticate, by the sync button and by init, with
\* the catch of each
pullRemoteData(d) ==
    /\ app.dev[d].pc \in {"authPull", "syncPull", "initPull"}
    /\ \E o \in SeqGet(variant, readDb, fresh, authorization(d)) :
          /\ Serve(o)
          /\ IF ok(o.resp)
             THEN app' = [app EXCEPT !.dev[d].cache = o.resp.contacts,
                                     !.dev[d].pc = "idle"]
             ELSE IF app.dev[d].pc = "initPull"
             THEN app' = [app EXCEPT !.dev[d].token = NoToken,
                                     !.dev[d].email = <<>>,
                                     !.dev[d].pc = "idle"]
             ELSE app' = [app EXCEPT !.dev[d].pc = "idle"]
    /\ UNCHANGED started

\* the logout button
logoutClick(d) ==
    /\ Quiet
    /\ isLogged(d)
    /\ started' = started + 1
    /\ Serve(SeqLogout(variant, readDb, fresh, authorization(d)))
    /\ app' = [app EXCEPT !.dev[d] = NoDevice]

\* a submit listener that pushes the new contact alone
contactFormSubmitSendingNew(d, form) ==
    LET payload == Contact(fresh + 1, 0, trim(form.nom), trim(form.organisation),
                           form.dateAppel, <<>>)
        cache == Append(app.dev[d].cache, payload)
        o == SeqPut(variant, readDb, fresh + 1, authorization(d), ArrayBody(<<payload>>))
    IN  /\ Quiet
        /\ started' = started + 1
        /\ IF app.dev[d].token = NoToken
           THEN UNCHANGED <<app, variant, twin, static, users, sessions, contacts, fresh,
                            req, resp, issuedLog, revoked, registered, lastPush>>
           ELSE /\ Serve(o)
                /\ app' = [app EXCEPT !.dev[d].cache = cache,
                                      !.sent = [n |-> app.sent.n + 1, dev |-> d,
                                                contacts |-> <<payload>>]]

\* the contact form's submit listener
contactFormSubmit(d, form) ==
    LET payload == Contact(fresh + 1, 0, trim(form.nom), trim(form.organisation),
                           form.dateAppel, <<>>)
        cache == Append(app.dev[d].cache, payload)
        o == SeqPut(variant, readDb, fresh + 1, authorization(d), ArrayBody(cache))
    IN  /\ Quiet
        /\ started' = started + 1
        /\ IF app.dev[d].token = NoToken
           THEN \* if (!getToken()) { setSyncStatus(...); return; }
                UNCHANGED <<app, variant, twin, static, users, sessions, contacts, fresh,
                            req, resp, issuedLog, revoked, registered, lastPush>>
           ELSE /\ Serve(o)
                /\ app' = [app EXCEPT
                             !.dev[d].cache = cache,
                             !.sent = [n |-> app.sent.n + 1, dev |-> d,
                                                contacts |-> cache],
                             !.added = IF d = "A" /\ LoggedIn(d)
                                       THEN app.added \cup
                                              {[id |-> payload.id, email |-> app.dev[d].email]}
                                       ELSE app.added]

\* the sync button up to "await pullRemoteData()"
syncClick(d) ==
    LET o == SeqPut(variant, readDb, fresh, authorization(d), ArrayBody(app.dev[d].cache))
    IN  /\ Quiet
        /\ isLogged(d)
        /\ started' = started + 1
        /\ Serve(o)
        /\ app' = [app EXCEPT !.dev[d].pc = IF ok(o.resp) THEN "syncPull" ELSE "idle",
                              !.sent = [n |-> app.sent.n + 1, dev |-> d,
                                                contacts |-> app.dev[d].cache]]

\* the page is loaded again: init() up to "await pullRemoteData()"
init(d) ==
    /\ Quiet
    /\ started' = started + 1
    /\ app' = [app EXCEPT !.dev[d].cache = <<>>,
                          !.dev[d].pc = IF isLogged(d) THEN "initPull" ELSE "idle"]
    /\ UNCHANGED <<variant, twin, static, users, sessions, contacts, fresh, req, resp,
                   issuedLog, revoked, registered, lastPush>>

NextApp ==
    \/ \E d \in Devices, e \in {EmailA, EmailAUp, EmailB}, p \in {Pw1, Pw2}, s \in Salts :
          authenticate(d, "register", e, p, s)
    \/ \E d \in Devices, e \in {EmailA, EmailAUp, EmailB}, p \in {Pw1, Pw2}, s \in Salts :
          authenticate(d, "login", e, p, s)
    \/ \E d \in Devices : pullRemoteData(d)
    \/ \E d \in Devices : logoutClick(d)
    \/ \E d \in Devices, f \in FormInputs : contactFormSubmit(d, f)
    \/ \E d \in Devices : syncClick(d)
    \/ \E d \in Devices : init(d)

\* an awaited pull is sent
SpecApp == InitApp /\ [][NextApp]_vars /\ WF_vars(\E d \in Devices : pullRemoteData(d))

\* the contacts added on device A to the account device B has just logged in to
AddedForB == {a \in app.added : a.email = app.dev["B"].email}

\* C18: once an account is registered on device A and a contact is added on A
\* while A's token is the account's session, a login to the account on device B is
\* followed by a pull, and the pull answers 200 with that contact among its
\* contacts
C18_ContactReachesSecondDevice ==
    /\ (app.dev["B"].pc = "authPull") ~> (app.dev["B"].pc = "idle")
    /\ [][app.dev["B"].pc = "authPull" /\ app'.dev["B"].pc = "idle" =>
            /\ resp'.op = "get" /\ resp'.status = 200
            /\ \A a \in AddedForB : a.id \in Range(IdsOf(resp'.contacts))
            /\ app'.dev["B"].cache = resp'.contacts]_vars

\* device B has logged in and pulled a contact that was added on device A
C18_SecondDeviceShowsContact ==
    /\ app.dev["B"].pc = "idle"
    /\ resp.op = "get" /\ resp.status = 200
    /\ AddedForB # {}
    /\ \A a \in AddedForB : a.id \in Range(IdsOf(app.dev["B"].cache))

-----------------------------------------------------------------------------
(* The static file fallback. A path is the sequence of its characters.      *)

\* __dirname of the server
PUBLIC_DIR == <<"/", "s", "/", "a">>

\* path.join(DATA_DIR, 'db.json') of the flat-file server: "d" stands for data, "j"
\* for db.json
DB_FILE == PUBLIC_DIR \o <<"/", "d", "/", "j">>

\* the files on the disk: two in the root, one in the directory beside it whose
\* name is the root's name and "2", and the file ensureDb makes at the flat-file
\* server's start
Files ==
    { PUBLIC_DIR \o <<"/", "i">>, PUBLIC_DIR \o <<"/", "x">>,
      PUBLIC_DIR \o <<"2", "/", "x">> }
    \cup (IF variant = "file" THEN {DB_FILE} ELSE {})

MaxSegments == 3

\* the segments of a request target; "i" stands for index.html
Segments ==
    { <<".", ".">>, <<".">>, <<"a">>, <<"a", "2">>, <<"x">>, <<"d">>, <<"j">>, <<"?">>, <<>> }

RECURSIVE joinWith(_, _)
\* Array.prototype.join
joinWith(segs, sep) ==
    IF segs = <<>> THEN <<>>
    ELSE IF Len(segs) = 1 THEN segs[1]
    ELSE segs[1] \o sep \o joinWith(Tail(segs), sep)

\* req.url: "/" and the segments with "/" between them
Urls ==
    { <<"/">> \o joinWith(segs, <<"/">>) :
        segs \in UNION { [1..n -> Segments] : n \in 1..MaxSegments } }

RECURSIVE splitAt(_, _, _)
\* String.prototype.split(sep) for a one-character sep; cur is the piece being read
splitAt(str, sep, cur) ==
    IF str = <<>> THEN <<cur>>
    ELSE IF Head(str) = sep THEN <<cur>> \o splitAt(Tail(str), sep, <<>>)
    ELSE splitAt(Tail(str), sep, Append(cur, Head(str)))

RECURSIVE normalizeString(_, _)
\* path.normalize on the segments of an absolute path: "" and "." are skipped,
\* ".." drops the segment before it, and stays at "/" when there is none
normalizeString(segs, kept) ==
    IF segs = <<>> THEN kept
    ELSE IF Head(segs) = <<>> \/ Head(segs) = <<".">>
    THEN normalizeString(Tail(segs), kept)
    ELSE IF Head(segs) = <<".", ".">>
    THEN normalizeString(Tail(segs),
                         IF kept = <<>> THEN kept ELSE SubSeq(kept, 1, Len(kept) - 1))
    ELSE normalizeString(Tail(segs), Append(kept, Head(segs)))

\* path.normalize of an absolute POSIX path
normalize(p) ==
    LET kept == normalizeString(splitAt(p, "/", <<>>), <<>>)
        trailingSeparator == p[Len(p)] = "/"
    IN  <<"/">> \o joinWith(kept, <<"/">>)
              \o (IF kept # <<>> /\ trailingSeparator THEN <<"/">> ELSE <<>>)

\* path.join(a, b): the two joined with "/" and normalized
pathJoin(a, b) == normalize(a \o <<"/">> \o b)

\* String.prototype.startsWith
startsWith(str, prefix) ==
    /\ Len(str) >= Len(prefix)
    /\ SubSeq(str, 1, Len(prefix)) = prefix

\* the path is the directory or lies below it
Inside(p, dir) == p = dir \/ startsWith(p, dir \o <<"/">>)

\* the fallback of both servers for the request target url
StaticGet(url) ==
    LET safePath == IF url = <<"/">> THEN <<"/", "i">> ELSE url
        cleaned == splitAt(safePath, "?", <<>>)[1]
        filepath == pathJoin(PUBLIC_DIR, cleaned)
    IN  /\ static' = IF ~startsWith(filepath, PUBLIC_DIR)
                     THEN [url |-> url, filepath |-> filepath, status |-> 403, read |-> FALSE]
                     ELSE [url |-> url, filepath |-> filepath,
                           status |-> IF filepath \in Files THEN 200 ELSE 404,
                           read |-> TRUE]
        /\ UNCHANGED <<variant, twin, app, users, sessions, contacts, fresh, started,
                       req, resp, issuedLog, revoked, registered, lastPush>>

NextStatic == \E url \in Urls \cup {<<"/">>} : StaticGet(url)

SpecStatic == Init /\ [][NextStatic]_vars

\* C20: the fallback answers 403 unless the resolved path lies inside the root
\* directory, and hands no path outside the root to fs.readFile
C20_StaticStaysInsideRoot ==
    static.status # 0 =>
        /\ static.status = 403 \/ Inside(static.filepath, PUBLIC_DIR)
        /\ static.read => Inside(static.filepath, PUBLIC_DIR)

-----------------------------------------------------------------------------
(* Storage failures. Requests are handled one at a time by either server;   *)
(* while a request is handled the storage works, or it fails at the         *)
(* handler's first storage operation: db.json does not parse (flat-file),   *)
(* a query is refused or the database cannot be reached (relational).       *)

\* what can be wrong with the storage of server v while a request is handled
Faults(v) ==
    IF v = "file" THEN {"none", "corrupt"} ELSE {"none", "query", "connection"}

\* the handler threw outside every try block: the callback's promise is rejected
\* and nothing is written to res
Unanswered(op) == Response(op, 0, 0, 0, <<>>, 0)

\* a handler that ends without touching the store
Refuse(answer) == Serve(Outcome(readDb, fresh, answer))

\* the headers a client can send: no header, a token with a session, a token without
HeadersNow ==
    {NoHeader} \cup {Bearer(t) : t \in {s.token : s \in sessions} \cup BogusTokens}

OneMore ==
    /\ started < MaxSeqRequests
    /\ started' = started + 1
    /\ UNCHANGED app

\* POST /api/auth/register: the storage is first used after the two validations,
\* inside the try block
FaultyRegister(rawEmail, rawPassword, salt, fault) ==
    LET validated == /\ isValidEmail(normalizeEmail(rawEmail))
                     /\ isValidPassword(normalizePassword(rawPassword))
    IN  /\ OneMore
        /\ IF fault = "none" \/ ~validated
           THEN Serve(SeqRegister(variant, readDb, fresh, rawEmail, rawPassword, salt))
           ELSE Refuse(Reply("register", 400, "Requete invalide."))

\* POST /api/auth/login: the storage is first used after the validation, inside
\* the try block
FaultyLogin(rawEmail, rawPassword, fault) ==
    /\ OneMore
    /\ IF fault = "none" \/ ~isValidEmail(normalizeEmail(rawEmail))
       THEN Serve(SeqLogin(variant, readDb, fresh, rawEmail, rawPassword))
       ELSE Refuse(Reply("login", 400, "Requete invalide."))

\* POST /api/auth/logout: no try block; the relational server sends its DELETE
\* only if (token)
FaultyLogout(auth, fault) ==
    /\ OneMore
    /\ IF fault = "none" \/ (variant = "pg" /\ bearerToken(auth) = NoToken)
       THEN Serve(SeqLogout(variant, readDb, fresh, auth))
       ELSE Refuse(Unanswered("logout"))

\* GET /api/sync: the flat-file server has no try block; the relational server
\* has one around getUserFromAuth, which sends its SELECT only if (token)
FaultyGet(auth, fault) ==
    /\ OneMore
    /\ IF fault = "none" \/ (variant = "pg" /\ bearerToken(auth) = NoToken)
       THEN \E o \in SeqGet(variant, readDb, fresh, auth) : Serve(o)
       ELSE IF variant = "file"
       THEN Refuse(Unanswered("get"))
       ELSE Refuse(Reply("get", 500, "Erreur serveur."))

\* PUT /api/sync: the flat-file server reads the file inside its try block; the
\* relational server awaits pool.connect() before its try block, and its catch
\* answers after a ROLLBACK
FaultyPut(auth, body, fault) ==
    /\ OneMore
    /\ IF fault = "none" \/ (fault = "query" /\ bearerToken(auth) = NoToken)
       THEN Serve(SeqPut(variant, readDb, fresh, auth, body))
       ELSE IF fault = "connection"
       THEN Refuse(Unanswered("put"))
       ELSE Refuse(Reply("put", 400, "Requete invalide."))

NextFaulty ==
    \/ \E e \in RawEmails, p \in RegisterPasswords, s \in Salts, f \in Faults(variant) :
          FaultyRegister(e, p, s, f)
    \/ \E e \in RawEmails, p \in LoginPasswords, f \in Faults(variant) :
          FaultyLogin(e, p, f)
    \/ \E h \in HeadersNow, f \in Faults(variant) : FaultyLogout(h, f)
    \/ \E h \in HeadersNow, f \in Faults(variant) : FaultyGet(h, f)
    \/ \E h \in HeadersNow, b \in Bodies, f \in Faults(variant) : FaultyPut(h, b, f)

SpecFaulty == Init /\ [][NextFaulty]_vars

\* C19: every register, login, logout, pull and push that has been handled was
\* answered, with a status among 200, 201, 400, 401, 404, 409 and 500, also when
\* the storage failed while it was handled
C19_EveryRequestAnswered ==
    resp.op # "none" => resp.status \in {200, 201, 400, 401, 404, 409, 500}

-----------------------------------------------------------------------------
(* What a push and a pull touch *)

\* the step in which the PUT /api/sync of slot r writes: writeDb of the flat-file
\* server, COMMIT of the relational server
PushWrites(r) == (\E b \in Bodies : FilePutFinish(r, b)) \/ PgPutCommit(r)

\* C21: the write of a PUT /api/sync leaves the users, the sessions and the contacts
\* of every other user as they were just before it, whatever requests completed
\* while the push was under way
C21_PushChangesOnlyOwnContacts ==
    [][\A r \in Reqs :
          PushWrites(r) =>
              LET others(c) == c.userId # req[r].uid
              IN  /\ users' = users
                  /\ sessions' = sessions
                  /\ SelectSeq(contacts', others) = SelectSeq(contacts, others)]_vars

\* C22: the records a PUT /api/sync stores (the last count rows after its write)
\* are owned by the user its token authenticated, whatever userId they carried; a
\* GET /api/sync answers only contacts of the user its token authenticates and
\* changes no user, session or contact
C22_OwnContactsOnly ==
    [][/\ \A r \in Reqs :
             PushWrites(r) /\ resp'.status = 200 =>
                 /\ resp'.count <= Len(contacts')
                 /\ \A i \in DOMAIN contacts' :
                       i > Len(contacts') - resp'.count =>
                           contacts'[i].userId = req[r].uid
       /\ \A h \in Headers :
             GetStep(h) =>
                 /\ StoreUnchanged
                 /\ variant = "file" /\ resp'.status = 200 =>
                       /\ resp'.uid \in {u.id : u \in getUserFromAuth(h, readDb)}
                       /\ \A i \in DOMAIN resp'.contacts :
                             resp'.contacts[i].userId = resp'.uid
       /\ \A r \in Reqs :
             PgGetContacts(r) =>
                 /\ StoreUnchanged
                 /\ resp'.uid = req[r].uid
                 /\ \A i \in DOMAIN resp'.contacts :
                       resp'.contacts[i].userId = req[r].uid]_vars

\* a record submitted with another user's id in its userId was stored as the
\* pushing user's, and a pull of that user has answered it
C22_ForeignOwnerOverwritten ==
    /\ resp.op = "get" /\ resp.status = 200
    /\ \E i \in DOMAIN resp.contacts :
          /\ resp.contacts[i].nom = KNoId.nom
          /\ resp.contacts[i].userId = resp.uid
          /\ resp.uid # KNoId.userId
    /\ \E i \in DOMAIN contacts : contacts[i].nom = KNoId.nom

\* C23: on either server, whatever push a user sends now, its answer and the
\* contacts it leaves that user are those the same push would have if the other
\* users had stored nothing, and the other users' contacts stay as they are
C23_PushIndependentOfOthers ==
    \A v \in {"file", "pg"}, h \in SeqHeaders, b \in Bodies :
        LET db == twin[v]
            authData == getUserFromAuth(h, db)
            mine(c) == \E u \in authData : c.userId = u.id
            others(c) == ~mine(c)
            alone == [db EXCEPT !.contacts = SelectSeq(db.contacts, mine)]
            here == SeqPut(v, db, twin.fresh, h, b)
            there == SeqPut(v, alone, twin.fresh, h, b)
        IN  /\ here.resp = there.resp
            /\ SelectSeq(here.db.contacts, mine) = SelectSeq(there.db.contacts, mine)
            /\ SelectSeq(here.db.contacts, others) = SelectSeq(db.contacts, others)

\* C24: the static file fallback, which asks for no token, never answers a request
\* with the file the flat-file server keeps its users, sessions and contacts in
C24_DbFileNotServed ==
    ~(static.status = 200 /\ static.filepath = DB_FILE)

-----------------------------------------------------------------------------
(* The contacts a device holds *)

\* C26: a contact that is in a device's contactsCache and not on the server (its
\* push failed) stays in that contactsCache until a push stores it on the server
C26_LocalContactKept ==
    [][\A d \in Devices :
          \A i \in DOMAIN app.dev[d].cache :
              LET id == app.dev[d].cache[i].id
              IN  id \notin Range(IdsOf(contacts)) =>
                     \/ id \in Range(IdsOf(app'.dev[d].cache))
                     \/ id \in Range(IdsOf(contacts'))]_vars

\* C27: a submit of the contact form on a device with no stored token changes
\* nothing and sends nothing; with a token it appends the contact to contactsCache
\* and sends one PUT /api/sync carrying the whole contactsCache; no push is sent,
\* and no contactsCache grows, on a device with no stored token
C27_NoPushWithoutToken ==
    [][/\ \A d \in Devices, f \in FormInputs :
             contactFormSubmit(d, f) =>
                 IF app.dev[d].token = NoToken
                 THEN app' = app /\ StoreUnchanged /\ resp' = resp
                 ELSE LET before == app.dev[d].cache
                          after == app'.dev[d].cache
                      IN  /\ Len(after) = Len(before) + 1
                          /\ SubSeq(after, 1, Len(before)) = before
                          /\ after[Len(after)].nom = trim(f.nom)
                          /\ after[Len(after)].organisation = trim(f.organisation)
                          /\ after[Len(after)].dateAppel = f.dateAppel
                          /\ app'.sent = [n |-> app.sent.n + 1, dev |-> d, contacts |-> after]
                          /\ resp'.op = "put"
       /\ app'.sent # app.sent => app.dev[app'.sent.dev].token # NoToken
       /\ \A d \in Devices :
             Len(app'.dev[d].cache) > Len(app.dev[d].cache) =>
                 app.dev[d].token # NoToken]_vars

\* a device has sent, as its second push, its two contacts, while the other device
\* holds no token and no contact
C27_WholeCachePushed ==
    /\ app.sent.n = 2 /\ Len(app.sent.contacts) = 2
    /\ app.dev[app.sent.dev].cache = app.sent.contacts
    /\ \E d \in Devices : app.dev[d].token = NoToken /\ app.dev[d].cache = <<>>

====
